---- MODULE Spec2Model ----
(***************************************************************************)
(* Sensitivity heat-map of the Model page: the grid normalization done in  *)
(* the heat-map tab (Model, capital_structure_grid -> uniqueDebtToEbitda,  *)
(* uniqueWacc, matrix) and the drawing effect of HeatmapChart.             *)
(*                                                                         *)
(* Numbers.  A JavaScript number is modelled as a fixed-point decimal: the *)
(* integer v stands for v / Unit.  The sample values used below are exact  *)
(* in that representation and none lies on a rounding tie, so toFixed(1)   *)
(* of the double and of the decimal agree.  Pixel positions are integers   *)
(* in 1/1000 of a length unit (truncated).  NaN is one more value of the   *)
(* number type, outside the range of the numbers the model computes.      *)
(*                                                                         *)
(* The recent-tickers store (useRecentTickers) is modelled next to it: its *)
(* list of entries and its two operations.  So are the auth token of       *)
(* localStorage with the useAuth store, the SignIn page, ProtectedLayout   *)
(* and the response interceptor of the HTTP client (SpecAuth); the         *)
(* export-progress socket and its callback (SpecSocket); the tabs of the   *)
(* Model page with its form submission and export (SpecModel); and the     *)
(* search of the Sidebar with its outstanding requests (SpecSearch).  Each *)
(* specification moves its own variables and leaves the others unchanged.  *)
(***************************************************************************)
EXTENDS Integers, Sequences, FiniteSets, TLC

\* capital_structure_grid  the sample sequence as the Model page received it
\* gridData    that same array as it stands after the normalization block
\* normalized  the normalization block has run over gridData
\* rerendered  the pass before ran over the same samples with the same props
\* xKeys       uniqueDebtToEbitda of the last pass
\* yKeys       uniqueWacc of the last pass
\* matrix      matrix of the last pass
\* props       the props HeatmapChart was last rendered with
\* mounted     HeatmapChart is mounted (svgRef.current is set)
\* svg         the elements inside the svg, in document order
\* recentTickers  state.recentTickers of the useRecentTickers store
\* auth_token  localStorage item 'auth_token' ("" when there is none)
\* user, isAuthenticated  state of the useAuth store
\* location    the path the browser is at (window.location / the router)
\* isLoading, error  state of the SignIn page
\* signIn      the fetch of SignIn.onSubmit: "none" or "pending"
\* layoutMounted  a ProtectedLayout is mounted
\* layoutView  what ProtectedLayout rendered last
\* fetchUser   the getCurrentUser call of ProtectedLayout's effect: "none",
\*             "pending", "rejected" (its promise has rejected and the catch
\*             has not run), with isMounted in fetchMounted
\* apiCall     another call through the HTTP client, likewise
\* lastStatus  status of the last failed response the interceptor handled
\* responseTick  flips with every failed response the interceptor handles
\* socket      the export-progress WebSocket: "none", "open" or "closed"
\* socketEvents  number of message and error events the socket has received
\* socketEvent   the last of them: its type, its data, and whether the
\*             progress callback threw on its first invocation for it
\* progressLog   the arguments the progress callback was invoked with, in order
\* activeTab, modelId  state of the Model page
\* modelSubmit   the api.post of the Model page's onSubmit: "none" or "pending"
\* exportRequest the api.get of handleExport: "none", "Excel" or "PPT"
\* downloads   number of export files handed to the browser
\* searchQuery, searchResults  state of the Sidebar
\* searchRequests  the queries of the search requests that have not settled
VARIABLES capital_structure_grid, gridData, normalized, rerendered, xKeys, yKeys,
          matrix, props, mounted, svg, recentTickers,
          auth_token, user, isAuthenticated, location, isLoading, error, signIn,
          layoutMounted, layoutView, fetchUser, fetchMounted, apiCall,
          lastStatus, responseTick,
          socket, socketEvents, socketEvent, progressLog,
          activeTab, modelId, modelSubmit, exportRequest, downloads,
          searchQuery, searchResults, searchRequests

heatmapVars ==
    <<capital_structure_grid, gridData, normalized, rerendered, xKeys, yKeys,
      matrix, props, mounted, svg>>

authVars ==
    <<auth_token, user, isAuthenticated, location, isLoading, error, signIn,
      layoutMounted, layoutView, fetchUser, fetchMounted, apiCall, lastStatus,
      responseTick>>

socketVars == <<socket, socketEvents, socketEvent, progressLog>>

modelVars == <<activeTab, modelId, modelSubmit, exportRequest, downloads>>

searchVars == <<searchQuery, searchResults, searchRequests>>

pageVars == <<socketVars, modelVars, searchVars>>

vars == <<heatmapVars, recentTickers, authVars, pageVars>>

\* fixed-point denominator of the modelled numbers
Unit == 10^7

\* longest capital_structure_grid the model enumerates
MaxSamples == 2

\* the number NaN
NaN == 0 - 2^30

Abs(v) == IF v < 0 THEN 0 - v ELSE v

Num(n) == n * Unit

\* ---------------------------------------------------------------- samples

\* One entry of capital_structure_grid: debt_to_ebitda, wacc, equity_irr.
Sample(d, w, r) == [debt_to_ebitda |-> d, wacc |-> w, equity_irr |-> r]

\* (3, 0.08, 0.22) and (5, 0.10, 0.18): the two samples of scenario A;
\* (3, 0.0800001, -0.05) and (3, 0.0799999, 0.12): wacc values that differ
\* and round to 8.0; (3.04, 0.10, 0) : a leverage that differs from 3 and
\* prints as 3.0, with a return of exactly 0; (5, 0.0799999, 0.22).
Samples ==
    { Sample(Num(3), 800000, 2200000),
      Sample(Num(5), 1000000, 1800000),
      Sample(Num(3), 800001, -500000),
      Sample(Num(3), 799999, 1200000),
      Sample(30400000, 1000000, 0),
      Sample(Num(5), 799999, 2200000) }

RECURSIVE SeqsUpTo(_, _)
SeqsUpTo(S, n) ==
    IF n = 0 THEN {<<>>}
    ELSE LET shorter == SeqsUpTo(S, n - 1)
         IN  shorter \cup {Append(q, s) : q \in shorter, s \in S}

GridInputs == SeqsUpTo(Samples, MaxSamples)

\* ------------------------------------------------- Number.prototype.toFixed

\* The digits n of x.toFixed(1): n / 10 - |x| as close to zero as possible,
\* the larger n on a tie.
FixedDigits(v) == (Abs(v) + Unit \div 20) \div (Unit \div 10)

\* x.toFixed(1): "-" for x < 0, the integer part, ".", one fractional digit.
\* NaN.toFixed(1) is "NaN".
toFixed1(v) ==
    IF v = NaN THEN "NaN"
    ELSE (IF v < 0 THEN "-" ELSE "")
        \o ToString(FixedDigits(v) \div 10) \o "." \o ToString(FixedDigits(v) % 10)

\* +(x).toFixed(1): the number the decimal string denotes, n / 10 with the
\* sign of x ("-0.0" parses to -0, which a Set and === treat as 0).
\* +"NaN" is NaN.
NumberOfFixed1(v) ==
    IF v = NaN THEN NaN
    ELSE (IF v < 0 THEN 0 - FixedDigits(v) ELSE FixedDigits(v)) * (Unit \div 10)

\* x * 100; NaN * 100 is NaN
Times100(v) == IF v = NaN THEN NaN ELSE v * 100

\* +(d.wacc * 100).toFixed(1)
WaccKey(w) == NumberOfFixed1(Times100(w))

\* row.equity_irr*100
CellValue(r) == Times100(r)

\* ------------------------------------------------------------ array helpers

\* The first 0-based index at or after k - 1 whose entry is the same value
\* as v, or -1.
RECURSIVE indexOfFrom(_, _, _)
indexOfFrom(a, v, k) ==
    IF k > Len(a) THEN -1
    ELSE IF a[k] = v THEN k - 1
    ELSE indexOfFrom(a, v, k + 1)

\* Array.prototype.indexOf on an array of numbers: the first 0-based index
\* holding v by ===, or -1; NaN === NaN is false, so NaN is never found.
indexOf(a, v) == IF v = NaN THEN -1 ELSE indexOfFrom(a, v, 1)

Range(a) == {a[k] : k \in 1..Len(a)}

\* Set.prototype.has / the key lookup of d3's ordinal scales: the same value
\* (SameValueZero, under which NaN is the same as NaN), 0-based, or -1.
sameValueIndex(a, v) == indexOfFrom(a, v, 1)

ArrayFromSetKeepsAll(a) == a

\* Array.from(new Set(a)): every value once, in order of first occurrence.
RECURSIVE ArrayFromSet(_)
ArrayFromSet(a) ==
    IF a = <<>> THEN <<>>
    ELSE LET front == ArrayFromSet(SubSeq(a, 1, Len(a) - 1))
             last == a[Len(a)]
         IN  IF sameValueIndex(front, last) # -1 THEN front ELSE Append(front, last)

\* compare(u, v) < 0 for (a, b) => b - a (descending) or (a, b) => a - b:
\* a difference with NaN is NaN, which sort takes as 0.
before(u, v, descending) ==
    /\ u # NaN
    /\ v # NaN
    /\ IF descending THEN u > v ELSE u < v

\* a.sort(compare) by insertion; descending = TRUE is (a, b) => b - a,
\* FALSE is (a, b) => a - b.  Entries that compare 0 keep their order.
RECURSIVE sort(_, _)
sort(a, descending) ==
    IF Len(a) <= 1 THEN a
    ELSE LET rest == sort(Tail(a), descending)
             v == Head(a)
             k == Cardinality({m \in 1..Len(rest) : before(rest[m], v, descending)})
         IN  SubSeq(rest, 1, k) \o <<v>> \o SubSeq(rest, k + 1, Len(rest))

\* ------------------------------------------------------------ normalization

\* gridData.map((d) => d.debt_to_ebitda)
mapDebtToEbitda(g) == [k \in 1..Len(g) |-> g[k].debt_to_ebitda]

\* gridData.map((d) => +(d.wacc * 100).toFixed(1))
mapWacc(g) == [k \in 1..Len(g) |-> WaccKey(g[k].wacc)]

\* Array.from(new Set(...)).sort((a, b) => a - b)
uniqueDebtToEbitda(g) == sort(ArrayFromSet(mapDebtToEbitda(g)), FALSE)

uniqueWaccAscending(g) == sort(ArrayFromSet(mapWacc(g)), FALSE)

\* Array.from(new Set(...)).sort((a, b) => b - a)
uniqueWacc(g) == sort(ArrayFromSet(mapWacc(g)), TRUE)

newMatrixTransposed(yk, xk) == [r \in 1..Len(xk) |-> [c \in 1..Len(yk) |-> 0]]

\* uniqueWacc.map(() => new Array(uniqueDebtToEbitda.length).fill(0))
newMatrix(yk, xk) == [r \in 1..Len(yk) |-> [c \in 1..Len(xk) |-> 0]]

setCellRaw(m, row, xk, yk) ==
    LET xIndex == indexOf(xk, row.debt_to_ebitda)
        yIndex == indexOf(yk, WaccKey(row.wacc))
    IN  IF xIndex # -1 /\ yIndex # -1
        THEN [m EXCEPT ![yIndex + 1][xIndex + 1] = row.equity_irr]
        ELSE m

setCellOnce(m, row, xk, yk) ==
    LET xIndex == indexOf(xk, row.debt_to_ebitda)
        yIndex == indexOf(yk, WaccKey(row.wacc))
    IN  IF xIndex # -1 /\ yIndex # -1 /\ m[yIndex + 1][xIndex + 1] = 0
        THEN [m EXCEPT ![yIndex + 1][xIndex + 1] = CellValue(row.equity_irr)]
        ELSE m

\* the body of gridData.forEach: one sample written to its cell
setCell(m, row, xk, yk) ==
    LET xIndex == indexOf(xk, row.debt_to_ebitda)
        yIndex == indexOf(yk, WaccKey(row.wacc))
    IN  IF xIndex # -1 /\ yIndex # -1
        THEN [m EXCEPT ![yIndex + 1][xIndex + 1] = CellValue(row.equity_irr)]
        ELSE m

\* gridData.forEach(...) over the samples in input order
RECURSIVE forEach(_, _, _, _)
forEach(m, g, xk, yk) ==
    IF g = <<>> THEN m
    ELSE forEach(setCell(m, Head(g), xk, yk), Tail(g), xk, yk)

\* the matrix of one pass: a new zero matrix, then every sample written
buildMatrix(g, xk, yk) == forEach(newMatrix(yk, xk), g, xk, yk)

\* uniqueDebtToEbitda.map((v) => `${v.toFixed(1)}x`)
xLabelsOf(xk) == [k \in 1..Len(xk) |-> toFixed1(xk[k]) \o "x"]

\* uniqueWacc.map((v) => `${v.toFixed(1)}%`)
yLabelsOf(yk) == [k \in 1..Len(yk) |-> toFixed1(yk[k]) \o "%"]

\* The three results of the normalization block for the sample sequence g.
buildGrid(g) ==
    LET xk == uniqueDebtToEbitda(g)
        yk == uniqueWacc(g)
    IN  [xKeys |-> xk, yKeys |-> yk, matrix |-> buildMatrix(g, xk, yk)]

\* buildGrid tabulated over the inputs of the model
gridOf == [g \in GridInputs |-> buildGrid(g)]

\* A pass that keeps the matrix of the pass before and adds into it.
normalizeInPlace(g) ==
    LET n == gridOf[g]
    IN  IF normalized /\ Len(matrix) = Len(n.matrix) /\ Len(xKeys) = Len(n.xKeys)
        THEN [n EXCEPT !.matrix =
                 [r \in 1..Len(n.yKeys) |->
                    [c \in 1..Len(n.xKeys) |-> matrix[r][c] + n.matrix[r][c]]]]
        ELSE n

\* One normalization pass: every result is computed anew from g alone.
normalize(g) == gridOf[g]

\* gridData.sort((a, b) => a.debt_to_ebitda - b.debt_to_ebitda): the samples
\* themselves put in order of leverage
RECURSIVE sortedInPlace(_)
sortedInPlace(g) ==
    IF Len(g) <= 1 THEN g
    ELSE LET rest == sortedInPlace(Tail(g))
             k == Cardinality({m \in 1..Len(rest) :
                     before(rest[m].debt_to_ebitda, Head(g).debt_to_ebitda, FALSE)})
         IN  SubSeq(rest, 1, k) \o <<Head(g)>> \o SubSeq(rest, k + 1, Len(rest))

\* gridData after the block has run over the array g: map and Array.from
\* return new arrays, sort and fill act on those, and forEach only reads
\* row.debt_to_ebitda, row.wacc and row.equity_irr.
afterNormalization(g) == g

\* ------------------------------------------------------- malformed samples

\* Samples with one field that is not a number: the leverage, the cost of
\* capital (NaN once multiplied, rounded and parsed) or the return; with
\* them the two samples of scenario A.
MalformedSamples ==
    { Sample(NaN, 800000, 2200000),
      Sample(Num(3), NaN, 2200000),
      Sample(Num(3), 800000, NaN),
      Sample(Num(3), 800000, 2200000),
      Sample(Num(5), 1000000, 1800000) }

MalformedInputs == SeqsUpTo(MalformedSamples, MaxSamples)

\* every arrangement of the entries of a (which are distinct)
Orders(a) == {q \in [1..Len(a) -> Range(a)] : Range(q) = Range(a)}

\* What a.sort(compare) can leave: with NaN next to two or more other keys
\* the comparator is not a consistent comparison (NaN compares 0 with keys
\* that differ) and the order is implementation-defined; otherwise the
\* sorted array.
sortOutcomes(a, descending) ==
    IF NaN \in Range(a) /\ Len(a) >= 3 THEN Orders(a) ELSE {sort(a, descending)}

\* The results the normalization block can return for g.
normalizeOutcomes(g) ==
    {[xKeys |-> xk, yKeys |-> yk, matrix |-> buildMatrix(g, xk, yk)] :
        xk \in sortOutcomes(ArrayFromSet(mapDebtToEbitda(g)), FALSE),
        yk \in sortOutcomes(ArrayFromSet(mapWacc(g)), TRUE)}

\* ------------------------------------------------------------- HeatmapChart

width == 600

height == 400

marginTop == 40

marginRight == 40

marginBottom == 60

marginLeft == 60

\* .padding(0.05), in hundredths
padding == 5

innerWidth == width - marginLeft - marginRight

innerHeight == height - marginTop - marginBottom

ModelTitle == "Equity IRR (%) across Capital Structure"

\* title?: string; "" stands for an absent title (both are falsy)
Titles == {"", ModelTitle}

Reverse(a) == [k \in 1..Len(a) |-> a[Len(a) + 1 - k]]

Max2(a, b) == IF a > b THEN a ELSE b

\* d3 scaleBand().domain(labels).range([r0, r1]).padding(0.05): the domain
\* keeps each label once; step = (stop - start) / max(1, n - pi + 2 po);
\* start is moved by half of what the bands leave over (align 0.5); the
\* band of the k-th domain value starts at start + step * k, and the list of
\* band starts is reversed when r1 < r0.
bandStarts(labels, r0, r1, reverse) ==
    LET n == Len(labels)
        lo == IF reverse THEN r1 ELSE r0
        hi == IF reverse THEN r0 ELSE r1
        step == ((hi - lo) * 1000 * 100) \div Max2(100, 100 * n - padding + 2 * padding)
        start == lo * 1000 + ((hi - lo) * 1000 - (step * (100 * n - padding)) \div 100) \div 2
        values == [k \in 1..n |-> start + step * (k - 1)]
    IN  IF reverse THEN Reverse(values) ELSE values

bandwidthOf(labels, r0, r1) ==
    LET n == Len(labels)
        step == (Abs(r1 - r0) * 1000 * 100) \div Max2(100, 100 * n - padding + 2 * padding)
    IN  (step * (100 - padding)) \div 100

scaleBand(labels, r0, r1) ==
    LET domain == ArrayFromSet(labels)
    IN  [domain |-> domain,
         range |-> bandStarts(domain, r0, r1, r1 < r0),
         bandwidth |-> bandwidthOf(domain, r0, r1)]

\* xScale(xLabels[j]) || 0 : the band start of the label, 0 when the scale
\* does not know it (or there is no j-th label)
bandOf(scale, labels, j) ==
    LET k == IF j > Len(labels) THEN -1 ELSE sameValueIndex(scale.domain, labels[j])
    IN  IF k = -1 THEN 0 ELSE scale.range[k + 1]

labelAt(labels, j) == IF j > Len(labels) THEN "undefined" ELSE labels[j]

\* data.flat()
RECURSIVE flat(_)
flat(data) == IF data = <<>> THEN <<>> ELSE Head(data) \o flat(Tail(data))

\* a domain that always reaches to 0
domainMinWithZero(data) ==
    LET values == (Range(flat(data)) \ {NaN}) \cup {0}
    IN  CHOOSE v \in values : \A u \in values : v <= u

\* min(data.flat()) || 0 and max(data.flat()) || 0: d3's min and max pass
\* over NaN and are undefined when no value is left.
domainMin(data) ==
    LET values == Range(flat(data)) \ {NaN}
    IN  IF values = {} THEN 0 ELSE CHOOSE v \in values : \A u \in values : v <= u

domainMaxWithZero(data) ==
    LET values == (Range(flat(data)) \ {NaN}) \cup {0}
    IN  CHOOSE v \in values : \A u \in values : v >= u

domainMax(data) ==
    LET values == Range(flat(data)) \ {NaN}
    IN  IF values = {} THEN 0 ELSE CHOOSE v \in values : \A u \in values : v >= u

\* colorScale(v): the interpolator applied to (v - d0) / (d1 - d0), to 0.5
\* when d0 = d1; the colour is kept as the interpolator's argument.  For NaN
\* the scale returns its unknown value, undefined, and no fill is set.
colorScale(d0, d1, v) ==
    IF v = NaN THEN ""
    ELSE IF d0 = d1 THEN "interpolateRdYlBu(0.5)"
    ELSE "interpolateRdYlBu(" \o ToString(v - d0) \o "/" \o ToString(d1 - d0) \o ")"

\* One element appended to the svg, in document order.  i, j are the loop
\* indices of a cell (-1 elsewhere); x, y are in 1/1000.
Element(tag, i, j, x, y, fill, text, hover, ticks) ==
    [tag |-> tag, i |-> i, j |-> j, x |-> x, y |-> y, fill |-> fill,
     text |-> text, hover |-> hover, ticks |-> ticks]

\* the (i, j) of the two nested loops, row by row (1-based here)
RECURSIVE cellsFrom(_, _)
cellsFrom(data, i) ==
    IF i > Len(data) THEN <<>>
    ELSE [j \in 1..Len(data[i]) |-> <<i, j>>] \o cellsFrom(data, i + 1)

\* a hover label that names the column before the row
cellRectColumnFirst(p, xScale, yScale, d0, d1, c) ==
    Element("rect", c[1] - 1, c[2] - 1,
            bandOf(xScale, p.xLabels, c[2]), bandOf(yScale, p.yLabels, c[1]),
            colorScale(d0, d1, p.data[c[1]][c[2]]), "",
            labelAt(p.xLabels, c[2]) \o ", " \o labelAt(p.yLabels, c[1]) \o ": "
                \o toFixed1(p.data[c[1]][c[2]]) \o "%",
            <<>>)

cellRect(p, xScale, yScale, d0, d1, c) ==
    Element("rect", c[1] - 1, c[2] - 1,
            bandOf(xScale, p.xLabels, c[2]), bandOf(yScale, p.yLabels, c[1]),
            colorScale(d0, d1, p.data[c[1]][c[2]]), "",
            labelAt(p.yLabels, c[1]) \o ", " \o labelAt(p.xLabels, c[2]) \o ": "
                \o toFixed1(p.data[c[1]][c[2]]) \o "%",
            <<>>)

\* a label colour chosen against the cell's background: dark on the upper
\* half of the colour domain
cellTextByBackground(p, xScale, yScale, c) ==
    Element("text", c[1] - 1, c[2] - 1,
            bandOf(xScale, p.xLabels, c[2]) + xScale.bandwidth \div 2,
            bandOf(yScale, p.yLabels, c[1]) + yScale.bandwidth \div 2,
            IF /\ p.data[c[1]][c[2]] # NaN
               /\ 2 * p.data[c[1]][c[2]] > domainMin(p.data) + domainMax(p.data)
            THEN "#000" ELSE "#fff",
            toFixed1(p.data[c[1]][c[2]]) \o "%", "", <<>>)

\* data[i][j] > 0 ? "#000" : "#fff" ; NaN > 0 is false
cellText(p, xScale, yScale, c) ==
    Element("text", c[1] - 1, c[2] - 1,
            bandOf(xScale, p.xLabels, c[2]) + xScale.bandwidth \div 2,
            bandOf(yScale, p.yLabels, c[1]) + yScale.bandwidth \div 2,
            IF p.data[c[1]][c[2]] # NaN /\ p.data[c[1]][c[2]] > 0 THEN "#000" ELSE "#fff",
            toFixed1(p.data[c[1]][c[2]]) \o "%", "", <<>>)

\* axisBottom / axisLeft: one tick per domain value at the middle of its band
axisOf(tag, scale) ==
    Element(tag, -1, -1, 0, 0, "", "", "",
            [k \in 1..Len(scale.domain) |->
                <<scale.domain[k], scale.range[k] + scale.bandwidth \div 2>>])

\* Everything one pass appends to the cleared svg (lines 30-118).
draw(p) ==
    LET xScale == scaleBand(p.xLabels, 0, innerWidth)
        yScale == scaleBand(p.yLabels, innerHeight, 0)
        cells == cellsFrom(p.data, 1)
        d0 == domainMin(p.data)
        d1 == domainMax(p.data)
    IN  <<Element("g", -1, -1, marginLeft * 1000, marginTop * 1000, "", "", "", <<>>)>>
        \o [k \in 1..Len(cells) |-> cellRect(p, xScale, yScale, d0, d1, cells[k])]
        \o [k \in 1..Len(cells) |-> cellText(p, xScale, yScale, cells[k])]
        \o <<axisOf("axisBottom", xScale), axisOf("axisLeft", yScale)>>
        \o (IF p.title # ""
            THEN <<Element("title", -1, -1, (width * 1000) \div 2,
                           (marginTop * 1000) \div 2, "", p.title, "", <<>>)>>
            ELSE <<>>)
        \o <<Element("caption", -1, -1, (width * 1000) \div 2, (height - 10) * 1000,
                     "", "Terminal Growth Rate (%)", "", <<>>),
             Element("caption", -1, -1, (0 - height * 1000) \div 2, 15 * 1000,
                     "", "WACC (%)", "", <<>>)>>

\* The props the heat-map tab builds from the normalizer's results.
RenderSpec(n, t) ==
    [data |-> n.matrix, xLabels |-> xLabelsOf(n.xKeys),
     yLabels |-> yLabelsOf(n.yKeys), title |-> t]

\* Scenario D: one row holding -5, 0 and 12.
ScenarioD ==
    [data |-> <<<<0 - Num(5), 0, Num(12)>>>>,
     xLabels |-> <<"3.0x", "4.0x", "5.0x">>, yLabels |-> <<"8.0%">>,
     title |-> ModelTitle]

\* props handed to HeatmapChart as they are
DirectSpecs == {ScenarioD}

\* the props the model hands to HeatmapChart, and draw tabulated over them
PropsInputs ==
    {RenderSpec(gridOf[g], t) : g \in GridInputs, t \in Titles} \cup DirectSpecs

drawn == [p \in PropsInputs |-> draw(p)]

\* a pass that appends the cell labels before the rectangles
drawLabelsFirst(p) ==
    LET d == draw(p)
        IsLabel(e) == e.tag = "text"
        IsRect(e) == e.tag = "rect"
        IsLater(e) == e.tag \notin {"g", "rect", "text"}
    IN  <<d[1]>> \o SelectSeq(d, IsLabel) \o SelectSeq(d, IsRect) \o SelectSeq(d, IsLater)

\* draw(p), read from the table for the props it holds
drawOnce(p) == IF p \in PropsInputs THEN drawn[p] ELSE draw(p)

\* an effect that draws onto what the svg already holds
effectWithoutClear(content, p) ==
    IF p.data = <<>> THEN content ELSE content \o drawOnce(p)

\* The useEffect body on a mounted chart whose svg holds `content`: nothing
\* at all for an empty data array, else clear and draw.
effect(content, p) ==
    IF p.data = <<>> THEN content ELSE drawOnce(p)

\* --------------------------------------------------------- useRecentTickers

\* .slice(0, 10)
RecentLimit == 10

\* number of ticker symbols the model draws from
MaxTickers == 11

\* longest list on which the model still picks any held symbol, under either
\* company name, for the next add; on longer lists only a new symbol is added
MaxPicked == 3

TickerSymbol(k) == "T" \o ToString(k)

CompanyNames == {"Corp", "Inc"}

\* TickerItem
TickerItem(ticker, companyName) == [ticker |-> ticker, companyName |-> companyName]

\* a filter that removes only the entry equal to the new item in both fields
filteredItems(list, ticker) ==
    LET Other(item) == item # ticker
    IN  SelectSeq(list, Other)

\* state.recentTickers.filter((item) => item.ticker !== ticker.ticker)
RECURSIVE filteredTickers(_, _)
filteredTickers(list, ticker) ==
    IF list = <<>> THEN <<>>
    ELSE (IF Head(list).ticker # ticker.ticker THEN <<Head(list)>> ELSE <<>>)
             \o filteredTickers(Tail(list), ticker)

\* a cut that keeps the newest entry and the tail of the list
sliceTail(a, end) ==
    IF Len(a) <= end THEN a ELSE <<Head(a)>> \o SubSeq(a, 3, Len(a))

\* a.slice(0, end)
slice(a, end) == SubSeq(a, 1, IF Len(a) < end THEN Len(a) ELSE end)

\* [ticker, ...filteredTickers].slice(0, 10)
addRecentTickerResult(list, ticker) ==
    slice(<<ticker>> \o filteredTickers(list, ticker), RecentLimit)

\* the symbols the list holds, and the first symbol it does not hold
heldSymbols(list) == {list[k].ticker : k \in 1..Len(list)}

newSymbols(list) ==
    LET absent == {k \in 1..MaxTickers : TickerSymbol(k) \notin heldSymbols(list)}
    IN  IF absent = {} THEN {}
        ELSE {TickerSymbol(CHOOSE k \in absent : \A m \in absent : k <= m)}

TickerItems ==
    {TickerItem(TickerSymbol(k), n) : k \in 1..MaxTickers, n \in CompanyNames}

\* The items the model passes to addRecentTicker in a state.
TickerInputs(list) ==
    IF Len(list) <= MaxPicked
    THEN {TickerItem(t, n) : t \in heldSymbols(list) \cup newSymbols(list),
                             n \in CompanyNames}
    ELSE {TickerItem(t, "Corp") : t \in newSymbols(list)}

\* ------------------------------------------------------------------ actions

Init ==
    /\ capital_structure_grid = <<>>
    /\ gridData = <<>>
    /\ normalized = FALSE
    /\ rerendered = FALSE
    /\ xKeys = <<>>
    /\ yKeys = <<>>
    /\ matrix = <<>>
    /\ props = [data |-> <<>>, xLabels |-> <<>>, yLabels |-> <<>>, title |-> ""]
    /\ mounted = FALSE
    /\ svg = <<>>
    /\ recentTickers = <<>>
    /\ auth_token = ""
    /\ user = "null"
    /\ isAuthenticated = FALSE
    /\ location = "/signin"
    /\ isLoading = FALSE
    /\ error = "null"
    /\ signIn = "none"
    /\ layoutMounted = FALSE
    /\ layoutView = "none"
    /\ fetchUser = "none"
    /\ fetchMounted = FALSE
    /\ apiCall = "none"
    /\ lastStatus = 0
    /\ responseTick = FALSE
    /\ socket = "none"
    /\ socketEvents = 0
    /\ socketEvent = [type |-> "none", data |-> "", threw |-> FALSE]
    /\ progressLog = <<>>
    /\ activeTab = "assumptions"
    /\ modelId = "null"
    /\ modelSubmit = "none"
    /\ exportRequest = "none"
    /\ downloads = 0
    /\ searchQuery = <<>>
    /\ searchResults = <<>>
    /\ searchRequests = <<>>

\* The normalization block over g with the results n, followed by
\* HeatmapChart's effect with the resulting props; a chart that was not
\* mounted starts with an empty svg.  rerendered records that the pass before
\* ran over the same samples and handed over the same props.
Render(g, n, t) ==
    LET p == RenderSpec(n, t)
    IN  /\ capital_structure_grid' = g
        /\ gridData' = afterNormalization(g)
        /\ normalized' = TRUE
        /\ rerendered' = (normalized /\ mounted /\ g = capital_structure_grid /\ p = props)
        /\ xKeys' = n.xKeys
        /\ yKeys' = n.yKeys
        /\ matrix' = n.matrix
        /\ props' = p
        /\ mounted' = TRUE
        /\ svg' = effect(IF mounted THEN svg ELSE <<>>, p)
        /\ UNCHANGED <<recentTickers, authVars, pageVars>>

Pass(g, t) == Render(g, normalize(g), t)

\* Model renders its heat-map tab with capital_structure_grid = g: a
\* non-empty grid is normalized and drawn, otherwise the chart is not rendered
\* (an unmounted chart's svg is gone).
ModelHeatmapTab(g) ==
    IF Len(g) > 0
    THEN Pass(g, ModelTitle)
    ELSE /\ capital_structure_grid' = g
         /\ gridData' = g
         /\ normalized' = FALSE
         /\ rerendered' = FALSE
         /\ mounted' = FALSE
         /\ svg' = <<>>
         /\ UNCHANGED <<xKeys, yKeys, matrix, props, recentTickers, authVars, pageVars>>

\* The pipeline run on any sample sequence, the empty one included: the
\* normalizer's results handed to HeatmapChart with or without a title.
HeatmapChartRender(g, t) ==
    /\ t \in Titles
    /\ Pass(g, t)

\* HeatmapChart rendered with props that no normalization produced.
HeatmapChartProps(p) ==
    /\ props' = p
    /\ mounted' = TRUE
    /\ svg' = effect(IF mounted THEN svg ELSE <<>>, p)
    /\ rerendered' = FALSE
    /\ UNCHANGED <<capital_structure_grid, gridData, normalized, xKeys, yKeys,
                   matrix, recentTickers, authVars, pageVars>>

Next ==
    \/ \E g \in GridInputs : ModelHeatmapTab(g)
    \/ \E g \in GridInputs, t \in Titles : HeatmapChartRender(g, t)
    \/ \E p \in DirectSpecs : HeatmapChartProps(p)

Spec == Init /\ [][Next]_vars

\* The pipeline run on a sample sequence that can hold malformed samples:
\* the keys come out of the two sorts in an order sort can leave them in.
MalformedRender(g, n, t) ==
    /\ t \in Titles
    /\ Render(g, n, t)

NextMalformed ==
    \E g \in MalformedInputs, t \in Titles :
        \E n \in normalizeOutcomes(g) : MalformedRender(g, n, t)

SpecMalformed == Init /\ [][NextMalformed]_vars

\* addRecentTicker(ticker)
addRecentTicker(ticker) ==
    /\ ticker \in TickerInputs(recentTickers)
    /\ recentTickers' = addRecentTickerResult(recentTickers, ticker)
    /\ UNCHANGED <<heatmapVars, authVars, pageVars>>

\* clearRecentTickers()
clearRecentTickers ==
    /\ recentTickers' = <<>>
    /\ UNCHANGED <<heatmapVars, authVars, pageVars>>

NextTickers ==
    \/ \E ticker \in TickerItems : addRecentTicker(ticker)
    \/ clearRecentTickers

SpecTickers == Init /\ [][NextTickers]_vars

\* ------------------------------------------------------- auth token, useAuth

\* error.response.status === 401
Unauthorized == 401

\* Statuses of failed responses; 0 stands for an error without a response.
Statuses == {0, Unauthorized, 403, 500}

\* an interceptor that signs out on every failed response that has a status
onResponseErrorAnyStatus(token, loc, status) ==
    IF status # 0
    THEN [auth_token |-> "", location |-> "/signin"]
    ELSE [auth_token |-> token, location |-> loc]

\* The response interceptor's error handler, up to its Promise.reject(error):
\* localStorage.removeItem('auth_token') and window.location.href = '/signin'
\* when there is a response and its status is 401.
onResponseError(token, loc, status) ==
    IF status # 0 /\ status = Unauthorized
    THEN [auth_token |-> "", location |-> "/signin"]
    ELSE [auth_token |-> token, location |-> loc]

\* !!user : null and undefined are falsy
truthy(u) == u \notin {"null", "undefined", ""}

\* setUser(user): set({ user, isAuthenticated: !!user })
setUser(u) == [user |-> u, isAuthenticated |-> truthy(u)]

\* What the sign-in request can come back with: fetch throws, or a response
\* that is ok or not, whose body is JSON (with or without detail,
\* access_token and user) or cannot be parsed.
SignInResponses ==
    {[fetch |-> "throws", ok |-> FALSE, body |-> "none", access_token |-> "",
      user |-> "undefined"]}
    \cup {[fetch |-> "responds", ok |-> FALSE, body |-> b, access_token |-> "",
           user |-> "undefined"] : b \in {"detail", "noDetail", "unparsable"}}
    \cup {[fetch |-> "responds", ok |-> TRUE, body |-> "unparsable",
           access_token |-> "", user |-> "undefined"]}
    \cup {[fetch |-> "responds", ok |-> TRUE, body |-> "json", access_token |-> t,
           user |-> u] : t \in {"", "t1", "t2"}, u \in {"undefined", "alice"}}

\* the sign-in succeeds: the try block runs to its end
signedIn(r) == r.fetch = "responds" /\ r.ok /\ r.body = "json"

\* err.message of what the try block throws
thrownMessage(r) ==
    IF r.fetch = "throws" THEN "Failed to fetch"
    ELSE IF ~ r.ok /\ r.body = "detail" THEN "Invalid credentials"
    ELSE IF ~ r.ok /\ r.body = "noDetail" THEN "HTTP error! status"
    ELSE IF ~ r.ok THEN "body stream already read"
    ELSE "Unexpected token"

\* The try and catch of onSubmit for the response r, from the state
\* (token, u, isAuth, loc): on success the token is stored when the body has
\* one, setUser(responseData.user) and navigate('/app/home'); otherwise
\* setError(err.message || ...).
onSubmitTryCatch(r, token, u, isAuth, loc) ==
    IF signedIn(r)
    THEN [auth_token |-> IF r.access_token # "" THEN r.access_token ELSE token,
          user |-> r.user, isAuthenticated |-> truthy(r.user),
          location |-> "/app/home", error |-> "null"]
    ELSE [auth_token |-> token, user |-> u, isAuthenticated |-> isAuth,
          location |-> loc, error |-> thrownMessage(r)]

\* isLoading after a handler that resets it at the end of the try block only
isLoadingWithoutFinally(r) == ~ signedIn(r)

\* isLoading after onSubmit: finally { setIsLoading(false) }
isLoadingAfterSubmit(r) == FALSE

\* ProtectedLayout's render with the stored token, after a render that
\* returned `previous`: without a token it returns <Navigate to="/signin">
\* before useEffect is called, which React rejects ("Rendered fewer hooks
\* than expected") when the render before did call useEffect.
renderProtectedLayout(token, previous) ==
    IF token # "" THEN "content"
    ELSE IF previous = "content" THEN "error"
    ELSE "redirect"

\* --------------------------------------------------------- auth: the actions

signInVars == <<isLoading, error, signIn>>

layoutVars == <<layoutMounted, layoutView, fetchUser, fetchMounted>>

interceptorVars == <<lastStatus, responseTick>>

\* SignIn.onSubmit up to its await fetch(...)
SignInSubmit ==
    /\ location = "/signin"
    /\ ~ layoutMounted
    /\ signIn = "none"
    /\ isLoading' = TRUE
    /\ error' = "null"
    /\ signIn' = "pending"
    /\ UNCHANGED <<auth_token, user, isAuthenticated, location, layoutVars, apiCall,
                   interceptorVars, heatmapVars, recentTickers, pageVars>>

\* SignIn.onSubmit from the response r on
SignInSettle(r) ==
    /\ signIn = "pending"
    /\ LET after == onSubmitTryCatch(r, auth_token, user, isAuthenticated, location)
       IN  /\ auth_token' = after.auth_token
           /\ user' = after.user
           /\ isAuthenticated' = after.isAuthenticated
           /\ location' = after.location
           /\ error' = after.error
    /\ isLoading' = isLoadingAfterSubmit(r)
    /\ signIn' = "none"
    /\ UNCHANGED <<layoutVars, apiCall, interceptorVars, heatmapVars, recentTickers, pageVars>>

\* A route under /app is entered: ProtectedLayout's first render and, when it
\* shows its content, its effect, which starts getCurrentUser if there is no
\* user and a token is stored.
ProtectedLayoutMount ==
    /\ ~ layoutMounted
    /\ signIn = "none"
    /\ fetchUser = "none"
    /\ layoutView' = renderProtectedLayout(auth_token, "none")
    /\ IF auth_token # ""
       THEN /\ location' = "/app/home"
            /\ layoutMounted' = TRUE
            /\ fetchUser' = IF ~ truthy(user) THEN "pending" ELSE "none"
            /\ fetchMounted' = ~ truthy(user)
       ELSE /\ location' = "/signin"
            /\ UNCHANGED <<layoutMounted, fetchUser, fetchMounted>>
    /\ UNCHANGED <<auth_token, user, isAuthenticated, signInVars, apiCall,
                   interceptorVars, heatmapVars, recentTickers, pageVars>>

\* getCurrentUser resolves: setUser(userData) if isMounted, and the render
\* that the store's change brings.
FetchUserResolved ==
    /\ fetchUser = "pending"
    /\ fetchUser' = "none"
    /\ fetchMounted' = FALSE
    /\ IF fetchMounted
       THEN /\ user' = setUser("alice").user
            /\ isAuthenticated' = setUser("alice").isAuthenticated
            /\ layoutView' = renderProtectedLayout(auth_token, layoutView)
            /\ layoutMounted' = (auth_token # "")
       ELSE UNCHANGED <<user, isAuthenticated, layoutView, layoutMounted>>
    /\ UNCHANGED <<auth_token, location, signInVars, apiCall, interceptorVars,
                   heatmapVars, recentTickers, pageVars>>

\* A failed response of status `status` to the pending call `req` goes
\* through the response interceptor, which rejects to the caller.
ResponseError(req, status) ==
    /\ \/ req = "fetchUser" /\ fetchUser = "pending"
       \/ req = "apiCall" /\ apiCall = "pending"
    /\ LET after == onResponseError(auth_token, location, status)
       IN  /\ auth_token' = after.auth_token
           /\ location' = after.location
    /\ fetchUser' = IF req = "fetchUser" THEN "rejected" ELSE fetchUser
    /\ apiCall' = IF req = "apiCall" THEN "rejected" ELSE apiCall
    /\ lastStatus' = status
    /\ responseTick' = ~ responseTick
    /\ UNCHANGED <<user, isAuthenticated, signInVars, layoutMounted, layoutView,
                   fetchMounted, heatmapVars, recentTickers, pageVars>>

\* The catch of fetchUser: if isMounted, removeAuthToken() and setUser(null),
\* and the render that the store's change brings.
FetchUserCatch ==
    /\ fetchUser = "rejected"
    /\ fetchUser' = "none"
    /\ fetchMounted' = FALSE
    /\ IF fetchMounted
       THEN /\ auth_token' = ""
            /\ user' = setUser("null").user
            /\ isAuthenticated' = setUser("null").isAuthenticated
            /\ layoutView' = renderProtectedLayout("", layoutView)
            /\ layoutMounted' = FALSE
            /\ location' =
                 IF renderProtectedLayout("", layoutView) = "redirect"
                 THEN "/signin" ELSE location
       ELSE UNCHANGED <<auth_token, user, isAuthenticated, layoutView,
                        layoutMounted, location>>
    /\ UNCHANGED <<signInVars, apiCall, interceptorVars, heatmapVars, recentTickers, pageVars>>

\* A page under the layout calls the HTTP client (api.get, api.post).
ApiRequest ==
    /\ layoutMounted
    /\ layoutView = "content"
    /\ apiCall = "none"
    /\ apiCall' = "pending"
    /\ UNCHANGED <<auth_token, user, isAuthenticated, location, signInVars,
                   layoutVars, interceptorVars, heatmapVars, recentTickers, pageVars>>

\* That call is over: it got its response, or its caller has handled the
\* rejection.
ApiCallDone ==
    /\ apiCall \in {"pending", "rejected"}
    /\ apiCall' = "none"
    /\ UNCHANGED <<auth_token, user, isAuthenticated, location, signInVars,
                   layoutVars, interceptorVars, heatmapVars, recentTickers, pageVars>>

\* The document of /signin loads after window.location.href = '/signin':
\* the page that was there is gone, with its components and pending calls;
\* the persisted store and localStorage stay.
PageLoad ==
    /\ location = "/signin"
    /\ layoutMounted
    /\ layoutMounted' = FALSE
    /\ layoutView' = "none"
    /\ fetchUser' = "none"
    /\ fetchMounted' = FALSE
    /\ apiCall' = "none"
    /\ UNCHANGED <<auth_token, user, isAuthenticated, location, signInVars,
                   interceptorVars, heatmapVars, recentTickers, pageVars>>

\* Sidebar's Sign Out button: localStorage.removeItem('auth_token') and
\* navigate('/signin'), which unmounts the layout.
SidebarSignOut ==
    /\ layoutMounted
    /\ auth_token' = ""
    /\ location' = "/signin"
    /\ layoutMounted' = FALSE
    /\ layoutView' = "none"
    /\ fetchMounted' = FALSE
    /\ UNCHANGED <<user, isAuthenticated, signInVars, fetchUser, apiCall,
                   interceptorVars, heatmapVars, recentTickers, pageVars>>

\* Sign Out of the header and of Settings: await logout(), which removes the
\* token and clears the store, then navigate('/signin').
HeaderSignOut ==
    /\ layoutMounted
    /\ truthy(user)
    /\ auth_token' = ""
    /\ user' = "null"
    /\ isAuthenticated' = FALSE
    /\ location' = "/signin"
    /\ layoutMounted' = FALSE
    /\ layoutView' = "none"
    /\ fetchMounted' = FALSE
    /\ UNCHANGED <<signInVars, fetchUser, apiCall, interceptorVars, heatmapVars,
                   recentTickers, pageVars>>

NextAuth ==
    \/ SignInSubmit
    \/ \E r \in SignInResponses : SignInSettle(r)
    \/ ProtectedLayoutMount
    \/ FetchUserResolved
    \/ \E req \in {"fetchUser", "apiCall"}, status \in Statuses : ResponseError(req, status)
    \/ FetchUserCatch
    \/ ApiRequest
    \/ ApiCallDone
    \/ PageLoad
    \/ SidebarSignOut
    \/ HeaderSignOut

SpecAuth == Init /\ [][NextAuth]_vars

\* ------------------------------------------------------ export-progress socket

\* message and error events followed per socket
MaxEvents == 3

\* event.data of a message event: the text of a JSON object with a status,
\* the JSON text null, a text that is not JSON, or binary data.
Payloads == {"{status:processing}", "{status:completed}", "null", "<html>", "blob"}

\* JSON.parse(event.data) returns (it throws on the others)
parses(data) == data \in {"{status:processing}", "{status:completed}", "null"}

\* what JSON.parse(event.data) returns
JSONparse(data) ==
    IF data = "{status:processing}"
    THEN [value |-> "object", status |-> "processing", error_message |-> "undefined"]
    ELSE IF data = "{status:completed}"
    THEN [value |-> "object", status |-> "completed", error_message |-> "undefined"]
    ELSE [value |-> "null", status |-> "undefined", error_message |-> "undefined"]

\* the message the catch of onMessage passes to the callback
parseFailure ==
    [value |-> "object", status |-> "error",
     error_message |-> "Failed to parse message from server."]

\* the message onError passes to the callback
connectionError ==
    [value |-> "object", status |-> "error",
     error_message |-> "WebSocket connection error."]

\* The invocations of onMessageCallback that the onMessage handler makes for
\* event.data, in order; threw: the callback threw when invoked with the
\* parsed message.  The call of the callback is inside the try block, so the
\* catch runs for an exception of the callback as it does for one of
\* JSON.parse.
onMessageCalls(data, threw) ==
    IF ~ parses(data) THEN <<parseFailure>>
    ELSE IF threw THEN <<JSONparse(data), parseFailure>>
    ELSE <<JSONparse(data)>>

\* createExportProgressWebSocket(jobId, onMessageCallback)
createExportProgressWebSocket ==
    /\ socket # "open"
    /\ socket' = "open"
    /\ socketEvents' = 0
    /\ socketEvent' = [type |-> "none", data |-> "", threw |-> FALSE]
    /\ progressLog' = <<>>
    /\ UNCHANGED <<heatmapVars, recentTickers, authVars, modelVars, searchVars>>

\* a message event with event.data = data
onMessage(data, threw) ==
    /\ socket = "open"
    /\ socketEvents < MaxEvents
    /\ socketEvents' = socketEvents + 1
    /\ socketEvent' = [type |-> "message", data |-> data, threw |-> threw]
    /\ progressLog' = progressLog \o onMessageCalls(data, threw)
    /\ UNCHANGED <<socket, heatmapVars, recentTickers, authVars, modelVars, searchVars>>

\* an error event
onError(threw) ==
    /\ socket = "open"
    /\ socketEvents < MaxEvents
    /\ socketEvents' = socketEvents + 1
    /\ socketEvent' = [type |-> "error", data |-> "", threw |-> threw]
    /\ progressLog' = Append(progressLog, connectionError)
    /\ UNCHANGED <<socket, heatmapVars, recentTickers, authVars, modelVars, searchVars>>

\* the close event: logged only
onClose ==
    /\ socket = "open"
    /\ socket' = "closed"
    /\ UNCHANGED <<socketEvents, socketEvent, progressLog, heatmapVars, recentTickers,
                   authVars, modelVars, searchVars>>

NextSocket ==
    \/ createExportProgressWebSocket
    \/ \E data \in Payloads, threw \in BOOLEAN : onMessage(data, threw)
    \/ \E threw \in BOOLEAN : onError(threw)
    \/ onClose

SpecSocket == Init /\ [][NextSocket]_vars

\* ------------------------------------------------------- Model page: the tabs

\* export files followed
MaxDownloads == 2

\* What the api.post of onSubmit can come back with: a rejection, or a
\* response whose data has a model_id or none.
ModelResponses ==
    {[rejected |-> TRUE, model_id |-> "undefined"]}
    \cup {[rejected |-> FALSE, model_id |-> id] : id \in {"undefined", "", "m1", "m2"}}

TabValues == {"assumptions", "results", "heatmap", "export"}

\* onSubmit after its await, from activeTab = tab and modelId = id:
\* setModelId(response.data.model_id) and setActiveTab('results'), or the
\* catch, which logs.
onSubmitSettled(resp, tab, id) ==
    IF resp.rejected
    THEN [activeTab |-> tab, modelId |-> id]
    ELSE [activeTab |-> "results", modelId |-> resp.model_id]

\* disabled of the trigger of tab value `tab`
triggerDisabled(tab, id) == tab # "assumptions" /\ ~ truthy(id)

\* The assumptions form is submitted: onSubmit up to its await api.post.
\* The form is the content of the assumptions tab, and its button is
\* disabled while a submission is under way.
onSubmit ==
    /\ activeTab = "assumptions"
    /\ modelSubmit = "none"
    /\ modelSubmit' = "pending"
    /\ UNCHANGED <<activeTab, modelId, exportRequest, downloads, heatmapVars,
                   recentTickers, authVars, socketVars, searchVars>>

\* onSubmit from the answer resp on
onSubmitResponse(resp) ==
    /\ modelSubmit = "pending"
    /\ modelSubmit' = "none"
    /\ activeTab' = onSubmitSettled(resp, activeTab, modelId).activeTab
    /\ modelId' = onSubmitSettled(resp, activeTab, modelId).modelId
    /\ UNCHANGED <<exportRequest, downloads, heatmapVars, recentTickers, authVars,
                   socketVars, searchVars>>

\* A click on the trigger of tab: onValueChange = setActiveTab, for a trigger
\* that is not disabled.
onValueChange(tab) ==
    /\ tab # activeTab
    /\ ~ triggerDisabled(tab, modelId)
    /\ activeTab' = tab
    /\ UNCHANGED <<modelId, modelSubmit, exportRequest, downloads, heatmapVars,
                   recentTickers, authVars, socketVars, searchVars>>

\* handleExport(type) up to its await api.get; its buttons are the content of
\* the export tab.
handleExport(type) ==
    /\ activeTab = "export"
    /\ exportRequest = "none"
    /\ IF ~ truthy(modelId)
       THEN activeTab' = "assumptions" /\ UNCHANGED exportRequest
       ELSE exportRequest' = type /\ UNCHANGED activeTab
    /\ UNCHANGED <<modelId, modelSubmit, downloads, heatmapVars, recentTickers,
                   authVars, socketVars, searchVars>>

\* handleExport after its await: the file is handed to the browser, or the
\* catch runs (setExportType(null)).
handleExportResponse(ok) ==
    /\ exportRequest # "none"
    /\ ok => downloads < MaxDownloads
    /\ exportRequest' = "none"
    /\ downloads' = IF ok THEN downloads + 1 ELSE downloads
    /\ UNCHANGED <<activeTab, modelId, modelSubmit, heatmapVars, recentTickers,
                   authVars, socketVars, searchVars>>

NextModel ==
    \/ onSubmit
    \/ \E resp \in ModelResponses : onSubmitResponse(resp)
    \/ \E tab \in TabValues : onValueChange(tab)
    \/ \E type \in {"Excel", "PPT"} : handleExport(type)
    \/ \E ok \in BOOLEAN : handleExportResponse(ok)

SpecModel == Init /\ [][NextModel]_vars

\* ------------------------------------------------------------ Sidebar search

\* search requests outstanding at a time
MaxRequests == 3

\* query.length >= 2
MinQueryLength == 2

\* The values of the search input, as sequences of characters.
Queries == {<<>>, <<"a">>, <<"a", "b">>, <<"a", "b", "c">>, <<"a", "b", "d">>}

\* response.data.results of the search for query: one company per query.
resultsFor(query) ==
    IF query = <<"a", "b">> THEN <<TickerItem(TickerSymbol(1), "Corp")>>
    ELSE IF query = <<"a", "b", "c">> THEN <<TickerItem(TickerSymbol(2), "Corp")>>
    ELSE IF query = <<"a", "b", "d">> THEN <<TickerItem(TickerSymbol(3), "Corp")>>
    ELSE <<>>

\* How a search request settles: with results, with a body without results,
\* or with a rejection.
SearchOutcomes == {"results", "noResults", "rejected"}

\* What handleSearchChange passes to setSearchResults when the request for
\* query settles: response.data.results || [], or [] in the catch.
searchSettled(query, outcome) ==
    IF outcome = "results" THEN resultsFor(query) ELSE <<>>

\* a without its i-th element
removeAt(a, i) == SubSeq(a, 1, i - 1) \o SubSeq(a, i + 1, Len(a))

\* handleSearchChange up to its await (or to its end, for a short query)
handleSearchChange(query) ==
    /\ query # searchQuery
    /\ Len(query) >= MinQueryLength => Len(searchRequests) < MaxRequests
    /\ searchQuery' = query
    /\ IF Len(query) >= MinQueryLength
       THEN /\ searchRequests' = Append(searchRequests, query)
            /\ UNCHANGED searchResults
       ELSE /\ searchResults' = <<>>
            /\ UNCHANGED searchRequests
    /\ UNCHANGED <<heatmapVars, recentTickers, authVars, socketVars, modelVars>>

\* handleSearchChange after its await, for the i-th outstanding request
searchResponse(i, outcome) ==
    /\ i <= Len(searchRequests)
    /\ searchResults' = searchSettled(searchRequests[i], outcome)
    /\ searchRequests' = removeAt(searchRequests, i)
    /\ UNCHANGED <<searchQuery, heatmapVars, recentTickers, authVars, socketVars,
                   modelVars>>

\* handleSelectResult for the k-th result shown
handleSelectResult(k) ==
    /\ k <= Len(searchResults)
    /\ recentTickers' = addRecentTickerResult(recentTickers, searchResults[k])
    /\ location' = "/app/model/" \o searchResults[k].ticker
    /\ searchQuery' = <<>>
    /\ searchResults' = <<>>
    /\ UNCHANGED <<searchRequests, heatmapVars, auth_token, user, isAuthenticated,
                   signInVars, layoutVars, apiCall, interceptorVars, socketVars,
                   modelVars>>

NextSearch ==
    \/ \E query \in Queries : handleSearchChange(query)
    \/ \E i \in 1..MaxRequests, outcome \in SearchOutcomes : searchResponse(i, outcome)
    \/ \E k \in 1..1 : handleSelectResult(k)

SpecSearch == Init /\ [][NextSearch]_vars

\* ------------------------------------------------------------------- claims

\* Rounding to one decimal stated on its own: the n with n/10 nearest to
\* 100 w (the upper one on a tie), for a cost of capital w in [0, 1].
RoundedPct(w) ==
    CHOOSE n \in 0..1000 :
        /\ w * 1000 - n * Unit >= 0 - Unit \div 2
        /\ w * 1000 - n * Unit < Unit \div 2

\* the number n/10, in the model's fixed point
PctValue(w) == RoundedPct(w) * (Unit \div 10)

\* the 1-based axis positions sample k resolves to (0 when it does not)
XPos(k) == indexOf(xKeys, gridData[k].debt_to_ebitda) + 1

YPos(k) == indexOf(yKeys, PctValue(gridData[k].wacc)) + 1

Mapped(k) == XPos(k) >= 1 /\ YPos(k) >= 1

SameCell(k, m) == XPos(k) = XPos(m) /\ YPos(k) = YPos(m)

ScenarioA ==
    <<Sample(Num(3), 800000, 2200000), Sample(Num(5), 1000000, 1800000)>>

ScenarioC ==
    <<Sample(Num(3), 800001, -500000), Sample(Num(3), 799999, 1200000)>>

\* C1: after a normalization pass there is exactly one x key per distinct
\* leverage value of the input and exactly one y key per distinct value of
\* the cost of capital as a percentage rounded to one decimal.
C1_KeyCounts ==
    normalized =>
        /\ Len(xKeys) =
             Cardinality({gridData[k].debt_to_ebitda : k \in 1..Len(gridData)})
        /\ Len(yKeys) =
             Cardinality({RoundedPct(gridData[k].wacc) : k \in 1..Len(gridData)})

\* C1 witness: two samples normalized whose leverage is the same and whose
\* raw cost of capital differs but rounds alike: one key on each axis.
C1_Witness ==
    /\ normalized
    /\ Len(gridData) = 2
    /\ gridData[1].wacc # gridData[2].wacc
    /\ Len(xKeys) = 1
    /\ Len(yKeys) = 1

\* C2: the x keys are strictly ascending and the y keys strictly descending.
C2_KeysSorted ==
    normalized =>
        /\ \A k \in 1..(Len(xKeys) - 1) : xKeys[k] < xKeys[k + 1]
        /\ \A k \in 1..(Len(yKeys) - 1) : yKeys[k] > yKeys[k + 1]

\* C2 witness: two keys on each axis, from samples that arrive with the
\* larger leverage and the smaller cost of capital first.
C2_Witness ==
    /\ normalized
    /\ Len(gridData) = 2
    /\ gridData[1].debt_to_ebitda > gridData[2].debt_to_ebitda
    /\ gridData[1].wacc < gridData[2].wacc
    /\ Len(xKeys) = 2
    /\ Len(yKeys) = 2

\* C3: the matrix has one row per y key and one cell per x key in every row,
\* a cell no sample maps to holds 0, and scenario A gives xKeys [3, 5],
\* yKeys [10.0, 8.0] and matrix [[0, 18], [22, 0]].
C3_MatrixShape ==
    normalized =>
        /\ Len(matrix) = Len(yKeys)
        /\ \A y \in 1..Len(matrix) : Len(matrix[y]) = Len(xKeys)
        /\ \A y \in 1..Len(matrix) : \A x \in 1..Len(matrix[y]) :
              (~ \E k \in 1..Len(gridData) : XPos(k) = x /\ YPos(k) = y)
                  => matrix[y][x] = 0
        /\ gridData = ScenarioA =>
              /\ xKeys = <<Num(3), Num(5)>>
              /\ yKeys = <<Num(10), Num(8)>>
              /\ matrix = <<<<0, Num(18)>>, <<Num(22), 0>>>>

\* C3 witness: scenario A has been normalized (two cells of it are uncovered).
C3_Witness == normalized /\ gridData = ScenarioA /\ Len(matrix) = 2

\* C4 as claimed: every sample that maps to a cell finds its own return,
\* times 100, in that cell.
C4_EverySample ==
    normalized =>
        \A k \in 1..Len(gridData) :
            Mapped(k) => matrix[YPos(k)][XPos(k)] = gridData[k].equity_irr * 100

\* C4 amended: every sample that maps to a cell to which no later sample of
\* the input maps finds its own return, times 100, in that cell.
C4_LastSample ==
    normalized =>
        \A k \in 1..Len(gridData) :
            (Mapped(k) /\ \A m \in (k + 1)..Len(gridData) : ~ SameCell(k, m))
                => matrix[YPos(k)][XPos(k)] = gridData[k].equity_irr * 100

\* C4 witness: a first sample whose cell a later sample with another return
\* also maps to, and a last sample that keeps its cell.
C4_Witness ==
    /\ normalized
    /\ Len(gridData) = 2
    /\ Mapped(1) /\ Mapped(2) /\ SameCell(1, 2)
    /\ gridData[1].equity_irr # gridData[2].equity_irr
    /\ matrix[YPos(2)][XPos(2)] = gridData[2].equity_irr * 100

\* C5: samples with the same leverage whose cost of capital rounds to the
\* same percentage share one y key and one cell, and every cell some sample
\* maps to holds 100 times the return of the last such sample in input order.
C5_LastWriteWins ==
    normalized =>
        /\ \A i \in 1..Len(gridData) : \A j \in 1..Len(gridData) :
              RoundedPct(gridData[i].wacc) = RoundedPct(gridData[j].wacc)
                  => /\ YPos(i) = YPos(j)
                     /\ YPos(i) >= 1
                     /\ Cardinality({y \in 1..Len(yKeys) :
                                        yKeys[y] = PctValue(gridData[i].wacc)}) = 1
        /\ \A y \in 1..Len(matrix) : \A x \in 1..Len(matrix[y]) :
              LET hits == {k \in 1..Len(gridData) : XPos(k) = x /\ YPos(k) = y}
              IN  hits # {} =>
                    matrix[y][x] =
                        gridData[CHOOSE k \in hits : \A m \in hits : m <= k].equity_irr * 100

\* C5 witness: scenario C normalized, 0.0800001 then 0.0799999 for one
\* leverage: one row, holding the later sample's 12.
C5_Witness ==
    /\ normalized
    /\ gridData = ScenarioC
    /\ yKeys = <<Num(8)>>
    /\ matrix = <<<<Num(12)>>>>

C7_OnlyLastRender ==
    mounted => Range(svg) \subseteq Range(draw(props))

\* C8 as claimed: the empty sample sequence normalizes to no x keys, no y
\* keys and no rows, and after rendering that matrix the surface holds no
\* cell (rectangle or cell label) and no axis.
C8_EmptyInput ==
    (normalized /\ gridData = <<>>) =>
        /\ xKeys = <<>> /\ yKeys = <<>> /\ matrix = <<>>
        /\ mounted =>
             \A k \in 1..Len(svg) :
                 svg[k].tag \notin {"rect", "text", "axisBottom", "axisLeft"}

\* C9 as claimed: the vertical offset of a cell grows with its row index,
\* row 0 being topmost.
C9_RowZeroOnTop ==
    mounted =>
        \A a \in 1..Len(svg) : \A b \in 1..Len(svg) :
            (svg[a].tag = "rect" /\ svg[b].tag = "rect" /\ svg[a].i < svg[b].i)
                => svg[a].y < svg[b].y

\* C10 as claimed: no x label occurs twice and no y label occurs twice in
\* the props handed to the chart.
C10_LabelsUnique ==
    mounted =>
        /\ Cardinality(Range(props.xLabels)) = Len(props.xLabels)
        /\ Cardinality(Range(props.yLabels)) = Len(props.yLabels)

\* the numbers among the values of the matrix the chart was handed
PropsValues == Range(flat(props.data)) \ {NaN}

\* the value of the cell a drawn element belongs to
ValueOf(e) == props.data[e.i + 1][e.j + 1]

\* C11: the colour of every rectangle is the colour scale over the domain
\* [smallest value, largest value] of the matrix (0 for a bound only when the
\* matrix has no number); the domain of a matrix of positive values lies
\* above 0 and that of a matrix of negative values below 0; in scenario D,
\* values -5, 0, 12, the domain is [-5, 12].
C11_ColorDomain ==
    (mounted /\ props.data # <<>>) =>
        LET lo == IF PropsValues = {} THEN 0
                  ELSE CHOOSE v \in PropsValues : \A u \in PropsValues : v <= u
            hi == IF PropsValues = {} THEN 0
                  ELSE CHOOSE v \in PropsValues : \A u \in PropsValues : v >= u
        IN  /\ \A k \in 1..Len(svg) :
                  svg[k].tag = "rect" => svg[k].fill = colorScale(lo, hi, ValueOf(svg[k]))
            /\ (PropsValues # {} /\ \A v \in PropsValues : v > 0)
                  => domainMin(props.data) > 0
            /\ (PropsValues # {} /\ \A v \in PropsValues : v < 0)
                  => domainMax(props.data) < 0
            /\ props = ScenarioD =>
                  /\ domainMin(props.data) = 0 - Num(5)
                  /\ domainMax(props.data) = Num(12)
                  /\ \E k \in 1..Len(svg) :
                        /\ svg[k].tag = "rect"
                        /\ svg[k].j = 1
                        /\ svg[k].fill = "interpolateRdYlBu(50000000/170000000)"

\* C11 witness: scenario D is drawn, and its three rectangles are there.
C11_Witness ==
    /\ mounted
    /\ props = ScenarioD
    /\ Cardinality({k \in 1..Len(svg) : svg[k].tag = "rect"}) = 3

\* C12: the colour of every cell label is "#000" exactly when the cell's
\* value is greater than 0 and "#fff" otherwise (zero, negative values),
\* whatever the other values of the matrix are; in scenario D the labels of
\* -5 and 0 are "#fff" and the label of 12 is "#000".
C12_LabelColourBySign ==
    (mounted /\ props.data # <<>>) =>
        /\ \A k \in 1..Len(svg) :
              svg[k].tag = "text" =>
                 svg[k].fill =
                    (IF ValueOf(svg[k]) # NaN /\ ValueOf(svg[k]) > 0 THEN "#000" ELSE "#fff")
        /\ props = ScenarioD =>
              \A k \in 1..Len(svg) :
                  svg[k].tag = "text" =>
                     svg[k].fill = (IF svg[k].j = 2 THEN "#000" ELSE "#fff")

\* C12 witness: a matrix drawn by the pipeline that holds a positive value, a
\* zero and a negative value, labelled "#000", "#fff" and "#fff".
C12_Witness ==
    /\ mounted
    /\ normalized
    /\ props.data = matrix
    /\ \E k \in 1..Len(svg) : \E m \in 1..Len(svg) : \E n \in 1..Len(svg) :
          /\ svg[k].tag = "text" /\ svg[m].tag = "text" /\ svg[n].tag = "text"
          /\ ValueOf(svg[k]) > 0 /\ svg[k].fill = "#000"
          /\ ValueOf(svg[m]) = 0 /\ svg[m].fill = "#fff"
          /\ ValueOf(svg[n]) < 0 /\ svg[n].fill = "#fff"

\* sample k of gridData has a field that is NaN
Malformed(k) ==
    \/ gridData[k].debt_to_ebitda = NaN
    \/ gridData[k].wacc = NaN
    \/ gridData[k].equity_irr = NaN

\* some cell of the matrix holds NaN and its label on the surface is "NaN%"
NaNCellShown ==
    \E y \in 1..Len(matrix) : \E x \in 1..Len(matrix[y]) :
        /\ matrix[y][x] = NaN
        /\ \E k \in 1..Len(svg) :
              /\ svg[k].tag = "text"
              /\ svg[k].i = y - 1
              /\ svg[k].j = x - 1
              /\ svg[k].text = "NaN%"

\* C13 as claimed: when the last sample of the input (the one no later
\* sample can overwrite) has a NaN field, whichever of the three it is, the
\* matrix holds a NaN cell and the surface shows it as "NaN%".
C13_MalformedSampleShown ==
    (normalized /\ mounted /\ gridData # <<>> /\ Malformed(Len(gridData)))
        => NaNCellShown

\* C13, the part that holds: a last sample whose return is NaN and whose
\* leverage and cost of capital are numbers is shown as a NaN cell.
C13_MalformedReturnShown ==
    (/\ normalized /\ mounted /\ gridData # <<>>
     /\ gridData[Len(gridData)].equity_irr = NaN
     /\ gridData[Len(gridData)].debt_to_ebitda # NaN
     /\ gridData[Len(gridData)].wacc # NaN)
        => NaNCellShown

\* C14 as claimed: on a mounted chart whose props carry a title the surface
\* holds that title, and when the matrix is empty it holds no cell.
C14_TitleDrawn ==
    (mounted /\ props.title # "") =>
        /\ \E k \in 1..Len(svg) : svg[k].tag = "title" /\ svg[k].text = props.title
        /\ props.data = <<>> =>
              \A k \in 1..Len(svg) : svg[k].tag \notin {"rect", "text"}

\* C15: a render of a mounted chart with the props of the render before
\* leaves the surface as that render left it.
C15_RenderIdempotent ==
    [][(mounted /\ mounted' /\ props' = props) => svg' = svg]_vars

\* C15 witness: the chart has been rendered twice in a row with the same
\* non-empty matrix and title, and the surface holds one title and as many
\* rectangles as the matrix has cells.
C15_Witness ==
    /\ rerendered
    /\ mounted
    /\ props.data # <<>>
    /\ Cardinality({k \in 1..Len(svg) : svg[k].tag = "title"}) = 1
    /\ Cardinality({k \in 1..Len(svg) : svg[k].tag = "rect"}) = Len(flat(props.data))

\* the positions of the surface holding an element of the tag for cell (i, j)
CellElements(tag, i, j) ==
    {k \in 1..Len(svg) : svg[k].tag = tag /\ svg[k].i = i - 1 /\ svg[k].j = j - 1}

\* C16: after a render of a non-empty matrix the surface holds, for every
\* cell (i, j), exactly one rectangle, whose hover label is
\* "<yLabels[i]>, <xLabels[j]>: <value to one decimal>%", and exactly one
\* text label "<value to one decimal>%"; there are as many rectangles and as
\* many cell labels as the matrix has cells.
C16_OneRectOneLabelPerCell ==
    (mounted /\ props.data # <<>>) =>
        /\ \A i \in 1..Len(props.data) : \A j \in 1..Len(props.data[i]) :
              /\ Cardinality(CellElements("rect", i, j)) = 1
              /\ \A k \in CellElements("rect", i, j) :
                    svg[k].hover = props.yLabels[i] \o ", " \o props.xLabels[j] \o ": "
                                      \o toFixed1(props.data[i][j]) \o "%"
              /\ Cardinality(CellElements("text", i, j)) = 1
              /\ \A k \in CellElements("text", i, j) :
                    svg[k].text = toFixed1(props.data[i][j]) \o "%"
        /\ Cardinality({k \in 1..Len(svg) : svg[k].tag = "rect"}) = Len(flat(props.data))
        /\ Cardinality({k \in 1..Len(svg) : svg[k].tag = "text"}) = Len(flat(props.data))

\* C16 witness: scenario A is drawn: four rectangles and four labels, the
\* cell of row 0, column 1 with "10.0%, 5.0x: 18.0%" and "18.0%".
C16_Witness ==
    /\ mounted
    /\ props.data = <<<<0, Num(18)>>, <<Num(22), 0>>>>
    /\ Cardinality({k \in 1..Len(svg) : svg[k].tag = "rect"}) = 4
    /\ \E k \in CellElements("rect", 1, 2) : svg[k].hover = "10.0%, 5.0x: 18.0%"
    /\ \E k \in CellElements("text", 1, 2) : svg[k].text = "18.0%"

\* the step of a render pass that appends elements of the tag
StepOf(tag) ==
    CASE tag = "g" -> 0
      [] tag = "rect" -> 1
      [] tag = "text" -> 2
      [] tag \in {"axisBottom", "axisLeft"} -> 3
      [] tag = "title" -> 4
      [] tag = "caption" -> 5

\* C17: on the surface a render pass leaves, every rectangle comes before
\* every cell label, every cell label before the two axes, the axes before
\* the title and the title before the two captions.
C17_AppendOrder ==
    (mounted /\ props.data # <<>>) =>
        \A a \in 1..Len(svg) : \A b \in 1..Len(svg) :
            StepOf(svg[a].tag) < StepOf(svg[b].tag) => a < b

\* C17 witness: a surface with two or more cells and a title: rectangles,
\* labels, both axes, the title and both captions are there.
C17_Witness ==
    /\ mounted
    /\ props.data # <<>>
    /\ Cardinality({k \in 1..Len(svg) : svg[k].tag = "rect"}) >= 2
    /\ Cardinality({k \in 1..Len(svg) : svg[k].tag = "text"}) >= 2
    /\ {svg[k].tag : k \in 1..Len(svg)} =
          {"g", "rect", "text", "axisBottom", "axisLeft", "title", "caption"}
    /\ Cardinality({k \in 1..Len(svg) : svg[k].tag = "caption"}) = 2

C19_NoSampleDropped ==
    normalized =>
        \A k \in 1..Len(gridData) :
            /\ indexOf(xKeys, gridData[k].debt_to_ebitda) # -1
            /\ indexOf(yKeys, WaccKey(gridData[k].wacc)) # -1

\* C20: the list never holds more than 10 entries, and an add of a symbol
\* the list does not hold to a list of 10 entries drops the last entry of
\* the list and keeps the nine before it, in order, behind the new one.
C20_AtMostTenDropLast ==
    /\ [](Len(recentTickers) <= RecentLimit)
    /\ [][(/\ Len(recentTickers) = RecentLimit
           /\ recentTickers' # <<>>
           /\ recentTickers'[1].ticker \notin heldSymbols(recentTickers))
            => /\ Len(recentTickers') = RecentLimit
               /\ Tail(recentTickers') = SubSeq(recentTickers, 1, RecentLimit - 1)]_vars

\* C20 witness: ten entries with T11 at the head after an add to a full
\* list: T2, added after T1 but not refreshed since, is gone, and T1, which
\* was refreshed later, is the last entry.
C20_Witness ==
    /\ Len(recentTickers) = RecentLimit
    /\ recentTickers[1].ticker = "T11"
    /\ "T2" \notin heldSymbols(recentTickers)
    /\ recentTickers[RecentLimit].ticker = "T1"

\* C21: no two entries of the list share a ticker symbol; every step of the
\* store either leaves the list empty (clearRecentTickers always does) or
\* leaves the added item at index 0, followed by the entries of the list
\* before with another symbol, in their order (cut to the limit).
C21_AddedFirstNoDuplicate ==
    /\ [](\A a \in 1..Len(recentTickers) : \A b \in 1..Len(recentTickers) :
             recentTickers[a].ticker = recentTickers[b].ticker => a = b)
    /\ [][clearRecentTickers => recentTickers' = <<>>]_vars
    /\ [][recentTickers' # <<>> =>
            LET Other(item) == item.ticker # recentTickers'[1].ticker
                rest == SelectSeq(recentTickers, Other)
            IN  /\ Len(recentTickers') - 1 <= Len(rest)
                /\ Tail(recentTickers') = SubSeq(rest, 1, Len(recentTickers') - 1)
                /\ Len(recentTickers') = RecentLimit \/ Len(recentTickers') = Len(rest) + 1]_vars

\* C21 witness: T1 was added as "Corp" before T2 and T3 and then again as
\* "Inc": it is at index 0 under the new name, once, and T3, T2 follow.
C21_Witness ==
    /\ Len(recentTickers) = 3
    /\ recentTickers[1] = TickerItem("T1", "Inc")
    /\ recentTickers[2].ticker = "T3"
    /\ recentTickers[3].ticker = "T2"

\* ----------------------------------------------------------------------- C22
\* C22: when the layout mounts with a token stored and no user loaded, the
\* current-user fetch is started; and when that fetch has failed while the
\* layout is still mounted, handling the failure removes the stored token,
\* sets the store's user to null, and the render that follows redirects to
\* /signin.
C22_FailedFetchRedirects ==
    /\ [][(ProtectedLayoutMount /\ auth_token # "" /\ ~ truthy(user))
              => fetchUser' = "pending"]_vars
    /\ [][(FetchUserCatch /\ fetchMounted)
              => /\ auth_token' = ""
                 /\ user' = "null"
                 /\ layoutView' = "redirect"
                 /\ location' = "/signin"]_vars

\* C22, the part that holds: the fetch is started, and its failure on a
\* mounted layout removes the token and sets the user to null.
C22_FailedFetchSignsOut ==
    /\ [][(ProtectedLayoutMount /\ auth_token # "" /\ ~ truthy(user))
              => fetchUser' = "pending"]_vars
    /\ [][(FetchUserCatch /\ fetchMounted)
              => /\ auth_token' = ""
                 /\ user' = "null"
                 /\ ~ isAuthenticated']_vars

\* The state after a fetch that failed with status 500 on a mounted layout:
\* the token is gone, and the layout's render has thrown instead of
\* redirecting; the location is still the protected page.
C22_RenderThrows ==
    /\ lastStatus = 500
    /\ fetchUser = "none"
    /\ auth_token = ""
    /\ layoutView = "error"
    /\ location = "/app/home"

\* ----------------------------------------------------------------------- C23
\* C23: every failed response that passes the response interceptor with
\* status 401 removes the stored token and sets the location to /signin; a
\* failed response of any other status (or without a response) leaves the
\* stored token as it was; and in both cases the call is rejected to its
\* caller.
C23_InterceptorOn401 ==
    [][responseTick' # responseTick =>
          /\ lastStatus' = Unauthorized => auth_token' = "" /\ location' = "/signin"
          /\ lastStatus' # Unauthorized => auth_token' = auth_token
          /\ \/ fetchUser = "pending" /\ fetchUser' = "rejected"
             \/ apiCall = "pending" /\ apiCall' = "rejected"]_vars

\* C23 witness: a call of a page under the layout was answered with 401
\* while a token was stored: the token is gone, the location is /signin and
\* the call is rejected to its caller.
C23_Witness ==
    /\ lastStatus = Unauthorized
    /\ apiCall = "rejected"
    /\ truthy(user)
    /\ auth_token = ""
    /\ location = "/signin"
    /\ layoutMounted

\* ----------------------------------------------------------------------- C24
\* C24: every message event and every error event on the export-progress
\* socket adds exactly one invocation of the progress callback: with the
\* parsed message when the data of a message event is valid JSON, and with a
\* message of status 'error' when it cannot be parsed or the event is an
\* error event.
C24_OneCallbackPerEvent ==
    [][socketEvents' = socketEvents + 1 =>
          /\ Len(progressLog') = Len(progressLog) + 1
          /\ SubSeq(progressLog', 1, Len(progressLog)) = progressLog
          /\ LET passed == progressLog'[Len(progressLog')]
             IN  IF socketEvent'.type = "message" /\ parses(socketEvent'.data)
                 THEN passed = JSONparse(socketEvent'.data)
                 ELSE passed.status = "error"]_vars

\* C24 for the events on which the callback returns normally from its first
\* invocation: one invocation per event, as stated.
C24_OneCallbackUnlessThrown ==
    [][(socketEvents' = socketEvents + 1 /\ ~ socketEvent'.threw) =>
          /\ Len(progressLog') = Len(progressLog) + 1
          /\ LET passed == progressLog'[Len(progressLog')]
             IN  IF socketEvent'.type = "message" /\ parses(socketEvent'.data)
                 THEN passed = JSONparse(socketEvent'.data)
                 ELSE passed.status = "error"]_vars

\* One message event with the JSON text null, on which the callback threw:
\* two invocations, the second one reporting a parse failure.
C24_TwoCallbacksForOneMessage ==
    /\ socketEvents = 1
    /\ socketEvent = [type |-> "message", data |-> "null", threw |-> TRUE]
    /\ progressLog = <<JSONparse("null"), parseFailure>>

\* ----------------------------------------------------------------------- C25
\* C25: when the submit handler of SignIn settles on a failed attempt (the
\* request threw, the response was not OK, or its body could not be read),
\* the stored token, the store's user and isAuthenticated and the location
\* are what they were, and an error message is set; and whenever the handler
\* settles, on success or failure, isLoading is false, while it is true as
\* long as the request is pending.
C25_FailedSignInChangesNothing ==
    /\ [][\A r \in SignInResponses :
            (SignInSettle(r) /\ ~ signedIn(r)) =>
                /\ auth_token' = auth_token
                /\ user' = user
                /\ isAuthenticated' = isAuthenticated
                /\ location' = location
                /\ error' # "null"]_vars
    /\ [][(signIn = "pending" /\ signIn' = "none") => ~ isLoading']_vars
    /\ [](signIn = "pending" => isLoading /\ error = "null")

\* C25 witness: a sign-in attempt made after a Sidebar sign-out was answered
\* with a non-OK response carrying a detail: the message is shown, isLoading
\* is false, nothing was stored and the page is still /signin.
C25_Witness ==
    /\ signIn = "none"
    /\ error = "Invalid credentials"
    /\ ~ isLoading
    /\ auth_token = ""
    /\ user = "alice"
    /\ location = "/signin"

\* ----------------------------------------------------------------------- C26
\* C26: in every state reachable through sign-in, the sign-out paths, the
\* 401 interceptor and the layout's user fetch, the store agrees with the
\* stored token: without a token the store has user = null and
\* isAuthenticated = false, and a store that holds a user comes with a token.
C26_StoreAgreesWithToken ==
    /\ auth_token = "" => (user = "null" /\ ~ isAuthenticated)
    /\ truthy(user) => auth_token # ""

\* After the Sidebar's Sign Out on a signed-in session: no token, the page is
\* /signin, and the store still holds the user with isAuthenticated = true.
C26_SignedOutWithUser ==
    /\ auth_token = ""
    /\ location = "/signin"
    /\ ~ layoutMounted
    /\ lastStatus = 0
    /\ user = "alice"
    /\ isAuthenticated

\* The paths that go through the store's own logout and setUser(null) keep
\* the agreement: the header's sign-out and the catch of the layout's fetch
\* leave no token, no user and isAuthenticated = false.
C26_LogoutClearsBoth ==
    [][(HeaderSignOut \/ (FetchUserCatch /\ fetchMounted)) =>
          (auth_token' = "" /\ user' = "null" /\ ~ isAuthenticated')]_vars

\* ----------------------------------------------------------------------- C27
\* C27: on the Model page, in every reachable state, the active tab is
\* 'results', 'heatmap' or 'export' only while a model id is set.
C27_TabsNeedModelId ==
    activeTab # "assumptions" => truthy(modelId)

\* A submission was answered with a body without model_id: the results tab
\* is active and there is no model id.
C27_ResultsWithoutModelId ==
    /\ activeTab = "results"
    /\ modelId = "undefined"
    /\ modelSubmit = "none"

\* The tab clicks and handleExport keep to the model id: a click never
\* activates a tab other than 'assumptions' without one, and handleExport
\* without one goes back to 'assumptions'.
C27_ClicksNeedModelId ==
    [][(modelSubmit' = modelSubmit /\ activeTab' # activeTab /\ activeTab' # "assumptions")
          => truthy(modelId')]_vars

\* ----------------------------------------------------------------------- C28
\* C28: once every outstanding search request has settled, searchResults
\* are the results returned for the current searchQuery (none when its
\* request failed or brought none), and empty when the current query has
\* fewer than 2 characters, whatever the order in which the responses came.
C28_ResultsOfCurrentQuery ==
    searchRequests = <<>> =>
        IF Len(searchQuery) < MinQueryLength
        THEN searchResults = <<>>
        ELSE searchResults \in {resultsFor(searchQuery), <<>>}

\* "ab" was typed and then "abc"; the response for "abc" came first and the
\* one for "ab" last: nothing is outstanding, the query is "abc" and the
\* results shown are those of "ab".
C28_StaleResults ==
    /\ searchRequests = <<>>
    /\ searchQuery = <<"a", "b", "c">>
    /\ searchResults = resultsFor(<<"a", "b">>)

\* A response that comes while it is the only request outstanding and its
\* query is still the current one leaves the results of the current query.
C28_InOrderResponse ==
    [][(searchRequests = <<searchQuery>> /\ searchRequests' = <<>>)
          => searchResults' \in {resultsFor(searchQuery'), <<>>}]_vars

====
